---- MODULE Spec2Model ----
(***************************************************************************)
(* Model of the k-d tree (src/src/kdtree.rs) and of the DBSCAN driver      *)
(* (src/src/dbscan.rs).                                                    *)
(*                                                                         *)
(* Items are the built-in instantiation [T; 2]: a point is <<x, y>> with   *)
(* integer coordinates.  A Measurement m >= 0 is represented by its        *)
(* square m*m: distance() is sqrt of a sum of squares and distance_to_axis *)
(* an absolute value, both non-negative, and the code only ever compares   *)
(* Measurements (<, <=, >=, partial_cmp), so the representation preserves  *)
(* every comparison the code makes.  epsilon is represented the same way.  *)
(*                                                                         *)
(* Input positions are 1-based here (Rust index i is position i + 1).      *)
(* An Option<NonZeroUsize> is a natural number, 0 standing for None.       *)
(***************************************************************************)
EXTENDS Integers, Sequences, FiniteSets, TLC

\* ------------------------------------------------------------------------
\* Bounds of the model
\* ------------------------------------------------------------------------
MaxLen == 2
GridMax == 1
MaxEpsSq == 2
MaxMinItems == 4
MaxKdLen == 4
KdGridMax == 1
MaxCount == 5

Grid == (0..GridMax) \X (0..GridMax)
KdGrid == (0..KdGridMax) \X (0..KdGridMax)

RECURSIVE SeqsUpTo(_, _)
SeqsUpTo(S, n) ==
    IF n = 0 THEN {<<>>}
    ELSE LET shorter == SeqsUpTo(S, n - 1)
         IN  shorter \cup {Append(s, x) : s \in shorter, x \in S}

RECURSIVE SubSeqOf(_, _)
SubSeqOf(s, keep) ==
    IF s = <<>> THEN <<>>
    ELSE LET rest == SubSeqOf(Tail(s), {i - 1 : i \in keep \ {1}})
         IN  IF 1 \in keep THEN <<Head(s)>> \o rest ELSE rest

\* Two groups of points joined only through the point <<2, 0>>.
Scenario == << <<0, 1>>, <<0, 1>>, <<1, 1>>, <<2, 0>>, <<3, 0>>, <<4, 0>>, <<4, 0>> >>

ReverseSeq(s) == [i \in 1..Len(s) |-> s[Len(s) + 1 - i]]

\* The inputs of dbscan: every short sequence over the grid, and every
\* subsequence of Scenario, in its order and in the reverse order.
DbscanInputs ==
    SeqsUpTo(Grid, MaxLen)
        \cup {SubSeqOf(Scenario, keep) : keep \in SUBSET DOMAIN Scenario}
        \cup {ReverseSeq(SubSeqOf(Scenario, keep)) : keep \in SUBSET DOMAIN Scenario}

\* ------------------------------------------------------------------------
\* KdTreeItem for [T; N]
\* ------------------------------------------------------------------------
\* depth % N of [T; N], with N = 2; coordinates are 1-based
Axis(depth) == (depth % 2) + 1

Less == "Less"
Equal == "Equal"
Greater == "Greater"

\* <[T; N] as KdTreeItem>::cmp_in_depth
cmp_in_depth(self, rhs, depth) ==
    IF self[Axis(depth)] < rhs[Axis(depth)] THEN Less
    ELSE IF self[Axis(depth)] = rhs[Axis(depth)] THEN Equal
    ELSE Greater

Sq(x) == x * x

\* <[T; N] as KdTreeItem>::distance (as the square of the Measurement)
distance(self, other) == Sq(self[1] - other[1]) + Sq(self[2] - other[2])

\* <[T; N] as KdTreeItem>::distance_to_axis (as the square of the Measurement)
distance_to_axis(self, other, depth) == Sq(self[Axis(depth)] - other[Axis(depth)])

\* ------------------------------------------------------------------------
\* DBSCAN
\* ------------------------------------------------------------------------
VARIABLES
    items,                  \* the input sequence
    epsilon,                \* epsilon (squared)
    min_items,
    pc,                     \* "outer" | "while" | "for" | "done"
    item,                   \* position of the outer for loop
    cluster_id,
    labels,
    visited,
    core_neighbor_groups,   \* the VecDeque of neighbor groups
    neighbors,              \* what is left of the group being iterated
    prev_epsilon,           \* epsilon of the previous call, -1 when none
    prev_labels,            \* labels returned by the previous call
    nodes,                  \* KdTree.nodes, the arena
    root_index,             \* KdTree.root_index
    op,                     \* the query that was called last
    query,
    max_count,
    result,                 \* what the query returned
    panicked                \* the query ended in a panic

dbvars == <<items, epsilon, min_items, pc, item, cluster_id, labels, visited,
            core_neighbor_groups, neighbors, prev_epsilon, prev_labels>>

kdvars == <<nodes, root_index, op, query, max_count, result, panicked>>

\* DbscanLabel: Noize is 0, Cluster(k) is k >= 1
Noize == 0
Cluster(k) == k

Positions == 1..Len(items)

\* KdTree::find_range_n over the tree of Indexed(position, item): the
\* positions of the items within epsilon of the query.  The order of the
\* result is unspecified, so a group is a set and its elements are iterated
\* in any order.
find_range_n(its, p, eps) ==
    {q \in 1..Len(its) : distance(its[q], its[p]) <= eps}

\* line 52: neighbors.len() >= min_items
IsCoreGroup(group, min) == Cardinality(group) >= min

\* lines 65-67, mutated: the sub-neighbors of a core neighbor are dropped
push_sub_neighbors_dropped(groups, sub_neighbors, min) == groups

\* lines 65-67: a neighbor that is a core point has its group enqueued
push_sub_neighbors(groups, sub_neighbors, min) ==
    IF Cardinality(sub_neighbors) >= min THEN Append(groups, sub_neighbors) ELSE groups

\* lines 60-72, mutated: the label is overwritten whatever it was
neighbor_label_stolen(label, was_visited, cluster_label) == cluster_label

\* lines 60-72, mutated: the Noize upgrade of lines 70-72 is missing
neighbor_label_no_upgrade(label, was_visited, cluster_label) ==
    IF ~was_visited THEN cluster_label ELSE label

\* lines 60-72: the label of a neighbor after the loop body
neighbor_label(label, was_visited, cluster_label) ==
    IF ~was_visited THEN cluster_label
    ELSE IF label = Noize THEN cluster_label
    ELSE label

\* line 59, mutated: a visited neighbor ends the iteration of the group
rest_of_group_break(group, neighbor, was_visited) ==
    IF was_visited THEN {} ELSE group \ {neighbor}

\* line 59: the for loop goes on with the other neighbors of the group
rest_of_group(group, neighbor, was_visited) == group \ {neighbor}

\* line 76, mutated: the increment is taken for every item of the outer loop
next_cluster_id_always(id, formed) == id + 1

\* line 76, mutated: the increment is missing
next_cluster_id_never(id, formed) == id

\* line 76: cluster_id.saturating_add(1), only after an expansion.  The
\* saturation at usize::MAX is out of reach: cluster_id <= Len(items) + 1.
next_cluster_id(id, formed) == IF formed THEN id + 1 ELSE id

\* lines 30-41
DbscanInit ==
    /\ items \in DbscanInputs
    /\ epsilon \in 0..MaxEpsSq
    /\ min_items \in 1..MaxMinItems
    /\ pc = "outer"
    /\ item = 1
    /\ cluster_id = 1
    /\ labels = [p \in 1..Len(items) |-> Noize]
    /\ visited = [p \in 1..Len(items) |-> FALSE]
    /\ core_neighbor_groups = <<>>
    /\ neighbors = {}
    /\ prev_epsilon = -1
    /\ prev_labels = <<>>
    /\ nodes = <<>>
    /\ root_index = 0
    /\ op = "none"
    /\ query = <<0, 0>>
    /\ max_count = 0
    /\ result = <<>>
    /\ panicked = FALSE

\* lines 44-46: the item was visited by an expansion
SkipVisited ==
    /\ pc = "outer"
    /\ item <= Len(items)
    /\ visited[item]
    /\ item' = item + 1
    /\ UNCHANGED <<items, epsilon, min_items, pc, cluster_id, labels, visited,
                   core_neighbor_groups, neighbors, prev_epsilon, prev_labels, kdvars>>

\* lines 48-52, 77: the item is not a core point
VisitNonCore ==
    /\ pc = "outer"
    /\ item <= Len(items)
    /\ ~visited[item]
    /\ ~IsCoreGroup(find_range_n(items, item, epsilon), min_items)
    /\ visited' = [visited EXCEPT ![item] = TRUE]
    /\ cluster_id' = next_cluster_id(cluster_id, FALSE)
    /\ item' = item + 1
    /\ UNCHANGED <<items, epsilon, min_items, pc, labels,
                   core_neighbor_groups, neighbors, prev_epsilon, prev_labels, kdvars>>

\* lines 48-57: the item is a core point and seeds a cluster
VisitCore ==
    /\ pc = "outer"
    /\ item <= Len(items)
    /\ ~visited[item]
    /\ IsCoreGroup(find_range_n(items, item, epsilon), min_items)
    /\ visited' = [visited EXCEPT ![item] = TRUE]
    /\ labels' = [labels EXCEPT ![item] = Cluster(cluster_id)]
    /\ core_neighbor_groups' = Append(core_neighbor_groups, find_range_n(items, item, epsilon))
    /\ pc' = "while"
    /\ UNCHANGED <<items, epsilon, min_items, item, cluster_id, neighbors,
                   prev_epsilon, prev_labels, kdvars>>

\* line 58: while let Some(neighbors) = core_neighbor_groups.pop_front()
PopGroup ==
    /\ pc = "while"
    /\ core_neighbor_groups # <<>>
    /\ neighbors' = Head(core_neighbor_groups)
    /\ core_neighbor_groups' = Tail(core_neighbor_groups)
    /\ pc' = "for"
    /\ UNCHANGED <<items, epsilon, min_items, item, cluster_id, labels, visited,
                   prev_epsilon, prev_labels, kdvars>>

\* lines 59-73: one iteration of the for loop over the group
VisitNeighbor(neighbor) ==
    /\ pc = "for"
    /\ neighbor \in neighbors
    /\ visited' = [visited EXCEPT ![neighbor] = TRUE]
    /\ labels' = [labels EXCEPT
                    ![neighbor] = neighbor_label(labels[neighbor], visited[neighbor],
                                                 Cluster(cluster_id))]
    /\ core_neighbor_groups' =
            IF ~visited[neighbor]
            THEN push_sub_neighbors(core_neighbor_groups,
                                    find_range_n(items, neighbor, epsilon), min_items)
            ELSE core_neighbor_groups
    /\ neighbors' = rest_of_group(neighbors, neighbor, visited[neighbor])
    /\ pc' = IF neighbors' = {} THEN "while" ELSE "for"
    /\ UNCHANGED <<items, epsilon, min_items, item, cluster_id, prev_epsilon, prev_labels, kdvars>>

\* lines 58, 76: the deque is empty, the expansion is over
EndExpansion ==
    /\ pc = "while"
    /\ core_neighbor_groups = <<>>
    /\ cluster_id' = next_cluster_id(cluster_id, TRUE)
    /\ item' = item + 1
    /\ pc' = "outer"
    /\ UNCHANGED <<items, epsilon, min_items, labels, visited, core_neighbor_groups,
                   neighbors, prev_epsilon, prev_labels, kdvars>>

\* line 80: the outer loop is over, labels is returned
Return ==
    /\ pc = "outer"
    /\ item > Len(items)
    /\ pc' = "done"
    /\ UNCHANGED <<items, epsilon, min_items, item, cluster_id, labels, visited,
                   core_neighbor_groups, neighbors, prev_epsilon, prev_labels, kdvars>>

\* lines 30-41: dbscan is called again on the same items and min_items with
\* an epsilon that is not smaller; the caller keeps the labels it got
CallAgain(eps) ==
    /\ pc = "done"
    /\ eps >= epsilon
    /\ prev_epsilon' = epsilon
    /\ prev_labels' = labels
    /\ epsilon' = eps
    /\ pc' = "outer"
    /\ item' = 1
    /\ cluster_id' = 1
    /\ labels' = [p \in 1..Len(items) |-> Noize]
    /\ visited' = [p \in 1..Len(items) |-> FALSE]
    /\ core_neighbor_groups' = <<>>
    /\ neighbors' = {}
    /\ UNCHANGED <<items, min_items, kdvars>>

DbscanNext ==
    \/ SkipVisited
    \/ VisitNonCore
    \/ VisitCore
    \/ PopGroup
    \/ \E neighbor \in neighbors : VisitNeighbor(neighbor)
    \/ EndExpansion
    \/ Return
    \/ \E eps \in 0..MaxEpsSq : CallAgain(eps)

vars == <<dbvars, kdvars>>

DbscanSpec == DbscanInit /\ [][DbscanNext]_vars

\* ------------------------------------------------------------------------
\* KdTree
\* ------------------------------------------------------------------------
PointLeq(a, b) == a[1] < b[1] \/ (a[1] = b[1] /\ a[2] <= b[2])

\* The inputs of KdTree::construct.  construct_part sorts the whole slice
\* before it reads any of it, and the sort may leave equal keys in any
\* order, so the order of the input is not observable: one sequence per
\* multiset of points is enumerated.
RECURSIVE SortedSeqsUpTo(_, _)
SortedSeqsUpTo(S, n) ==
    IF n = 0 THEN {<<>>}
    ELSE LET shorter == SortedSeqsUpTo(S, n - 1)
         IN  shorter \cup
             UNION {{Append(s, x) : x \in {y \in S : s = <<>> \/ PointLeq(s[Len(s)], y)}} :
                        s \in shorter}

KdInputs == SortedSeqsUpTo(KdGrid, MaxKdLen)

\* struct Node<T>
Node(it, left, right) == [item |-> it, left_index |-> left, right_index |-> right]

\* allocate_node: push the node, return the arena and the 1-based index
allocate_node(arena, node) ==
    [nodes |-> Append(arena, node), index |-> Len(arena) + 1]

IsSortedBy(s, depth) ==
    \A i \in 1..(Len(s) - 1) : cmp_in_depth(s[i + 1], s[i], depth) # Less

Reorderings(its) ==
    {[i \in 1..Len(its) |-> its[f[i]]] : f \in Permutations(1..Len(its))}

\* line 163, mutated: the slice is sorted on the axis of the next depth
sort_unstable_by_next_axis(its, depth) ==
    {s \in Reorderings(its) : IsSortedBy(s, depth + 1)}

\* line 163: items.sort_unstable_by(cmp_in_depth at depth).  The sort is
\* unstable: every order of the slice that is sorted on the axis is possible.
sort_unstable_by(its, depth) ==
    {s \in Reorderings(its) : IsSortedBy(s, depth)}

\* construct_part: the set of (arena, index) the call can end with
RECURSIVE construct_part(_, _, _)
construct_part(arena, its, depth) ==
    IF Len(its) = 0 THEN {[nodes |-> arena, index |-> 0]}
    ELSE IF Len(its) = 1 THEN {allocate_node(arena, Node(its[1], 0, 0))}
    ELSE UNION {
        LET mid == Len(s) \div 2
            left_slice == SubSeq(s, 1, mid)
            mid_item == s[mid + 1]
            right_slice == SubSeq(s, mid + 2, Len(s))
        IN  UNION {
                {allocate_node(r.nodes, Node(mid_item, l.index, r.index)) :
                    r \in construct_part(l.nodes, right_slice, depth + 1)} :
                l \in construct_part(arena, left_slice, depth + 1)}
        : s \in sort_unstable_by(its, depth)}

\* NeighborCandidate(&item, distance), ordered by the distance alone
NeighborCandidate(it, dist) == [item |-> it, distance |-> dist]

Swap(data, i, j) == [data EXCEPT ![i] = data[j], ![j] = data[i]]

\* BinaryHeap::sift_up: positions are 1-based, the parent of pos is pos \div 2
RECURSIVE sift_up(_, _, _)
sift_up(data, start, pos) ==
    IF pos > start /\ data[pos].distance > data[pos \div 2].distance
    THEN sift_up(Swap(data, pos, pos \div 2), start, pos \div 2)
    ELSE data

\* BinaryHeap::push
heap_push(data, candidate) == sift_up(Append(data, candidate), 1, Len(data) + 1)

\* BinaryHeap::sift_down_to_bottom: the hole goes down to a leaf along the
\* greater children (the right one on a tie), then the element is sifted up
RECURSIVE sift_down_to_bottom(_, _)
sift_down_to_bottom(data, pos) ==
    IF 2 * pos + 1 <= Len(data)
    THEN LET child == IF data[2 * pos].distance <= data[2 * pos + 1].distance
                      THEN 2 * pos + 1 ELSE 2 * pos
         IN  sift_down_to_bottom(Swap(data, pos, child), child)
    ELSE IF 2 * pos = Len(data)
    THEN sift_up(Swap(data, pos, 2 * pos), 1, 2 * pos)
    ELSE sift_up(data, 1, pos)

\* BinaryHeap::pop, on a heap that is not empty
heap_pop(data) ==
    IF Len(data) = 1 THEN <<>>
    ELSE sift_down_to_bottom([SubSeq(data, 1, Len(data) - 1) EXCEPT ![1] = data[Len(data)]], 1)

\* the heap of candidates, and whether an expect() has panicked
Candidates(data, panic) == [data |-> data, panicked |-> panic]
Panic(candidates) == [candidates EXCEPT !.panicked = TRUE]

\* lines 112-118: the node enters the heap when the heap has room, or when
\* it is closer than the farthest candidate (peek().expect("must exist"))
offer_root(candidates, max_candidates, it, root_distance) ==
    IF Len(candidates.data) < max_candidates
    THEN Candidates(heap_push(candidates.data, NeighborCandidate(it, root_distance)), FALSE)
    ELSE IF candidates.data = <<>> THEN Panic(candidates)
    ELSE IF root_distance < candidates.data[1].distance
    THEN Candidates(heap_push(heap_pop(candidates.data),
                              NeighborCandidate(it, root_distance)), FALSE)
    ELSE candidates

\* lines 129-139: whether the other side of the splitting plane is searched
search_second(candidates, max_candidates, axis_distance) ==
    IF Len(candidates.data) < max_candidates THEN "yes"
    ELSE IF candidates.data = <<>> THEN "panic"
    ELSE IF axis_distance < candidates.data[1].distance THEN "yes"
    ELSE "no"

\* KdTree::find_nearest_n_depth; root is an arena index, 0 for None
RECURSIVE find_nearest_n_depth(_, _, _, _, _, _)
find_nearest_n_depth(self, candidates, max_candidates, root, q, depth) ==
    IF candidates.panicked \/ root = 0 THEN candidates
    ELSE
        LET node == self[root]
            offered == offer_root(candidates, max_candidates, node.item,
                                  distance(q, node.item))
            query_is_less == cmp_in_depth(q, node.item, depth) = Less
            first_subtree == IF query_is_less THEN node.left_index ELSE node.right_index
            second_subtree == IF query_is_less THEN node.right_index ELSE node.left_index
            after_first == find_nearest_n_depth(self, offered, max_candidates,
                                                first_subtree, q, depth + 1)
            decision == search_second(after_first, max_candidates,
                                      distance_to_axis(q, node.item, depth))
        IN  IF after_first.panicked THEN after_first
            ELSE IF decision = "panic" THEN Panic(after_first)
            ELSE IF decision = "yes"
            THEN find_nearest_n_depth(self, after_first, max_candidates,
                                      second_subtree, q, depth + 1)
            ELSE after_first

\* line 96: candidates.iter().rev().map(|c| c.0).collect(); iter() walks the
\* vector that backs the heap
collect_rev(data) == [i \in 1..Len(data) |-> ReverseSeq(data)[i].item]

\* KdTree::find_nearest_n: the returned vector, or a panic
find_nearest_n(self, root, q, count) ==
    LET candidates == find_nearest_n_depth(self, Candidates(<<>>, FALSE), count, root, q, 0)
    IN  [result |-> IF candidates.panicked THEN <<>> ELSE collect_rev(candidates.data),
         panicked |-> candidates.panicked]

\* before KdTree::construct
KdInit ==
    /\ items \in KdInputs
    /\ pc = "construct"
    /\ nodes = <<>>
    /\ root_index = 0
    /\ op = "none"
    /\ query = <<0, 0>>
    /\ max_count = 0
    /\ result = <<>>
    /\ panicked = FALSE
    /\ epsilon = 0
    /\ min_items = 1
    /\ item = 1
    /\ cluster_id = 1
    /\ labels = <<>>
    /\ visited = <<>>
    /\ core_neighbor_groups = <<>>
    /\ neighbors = {}
    /\ prev_epsilon = -1
    /\ prev_labels = <<>>

kdrest == <<epsilon, min_items, item, cluster_id, labels, visited, core_neighbor_groups,
            neighbors, prev_epsilon, prev_labels>>

\* KdTree::construct
Construct ==
    /\ pc = "construct"
    /\ \E built \in construct_part(<<>>, items, 0) :
          /\ nodes' = built.nodes
          /\ root_index' = built.index
    /\ pc' = "built"
    /\ UNCHANGED <<items, op, query, max_count, result, panicked, kdrest>>

\* KdTree::find_nearest_n(query, max_count)
FindNearestN(q, count) ==
    /\ pc = "built"
    /\ LET returned == find_nearest_n(nodes, root_index, q, count)
       IN  /\ result' = returned.result
           /\ panicked' = returned.panicked
    /\ op' = "find_nearest_n"
    /\ query' = q
    /\ max_count' = count
    /\ pc' = "returned"
    /\ UNCHANGED <<items, nodes, root_index, kdrest>>

\* KdTree::find_nearest(query): find_nearest_n(query, 1).into_iter().next(),
\* an Option that is a sequence of at most one item here
FindNearest(q) ==
    /\ pc = "built"
    /\ LET returned == find_nearest_n(nodes, root_index, q, 1)
       IN  /\ result' = IF returned.result = <<>> THEN <<>>
                         ELSE <<returned.result[1]>>
           /\ panicked' = returned.panicked
    /\ op' = "find_nearest"
    /\ query' = q
    /\ max_count' = 1
    /\ pc' = "returned"
    /\ UNCHANGED <<items, nodes, root_index, kdrest>>

KdNext ==
    \/ Construct
    \/ \E q \in KdGrid, count \in 0..MaxCount : FindNearestN(q, count)
    \/ \E q \in KdGrid : FindNearest(q)

KdSpec == KdInit /\ [][KdNext]_vars

\* ------------------------------------------------------------------------
\* Properties of dbscan
\* ------------------------------------------------------------------------
\* N_p and core points, as the glossary defines them
N(p) == {q \in Positions : distance(items[p], items[q]) <= epsilon}
IsCore(p) == Cardinality(N(p)) >= min_items
Cores == {p \in Positions : IsCore(p)}
IsBorder(p) == ~IsCore(p) /\ \E c \in N(p) : IsCore(c)

Done == pc = "done"

\* C1 as stated (D3): after dbscan returns, every position in the
\* neighborhood of a core point labelled Cluster(k) is labelled Cluster(k).
C1_AllNeighborsShareLabel ==
    Done => \A p \in Cores : labels[p] # Noize =>
                \A q \in N(p) : labels[q] = labels[p]

\* C1 amended: after dbscan returns, every position q in the neighborhood of
\* a core point labelled Cluster(k) is labelled Cluster(j) with j <= k, and
\* j < k only when q is a non-core point within epsilon of a core point
\* labelled Cluster(j).
C1_NeighborsLabelled ==
    Done => \A p \in Cores : labels[p] # Noize =>
                \A q \in N(p) :
                    /\ labels[q] \in 1..labels[p]
                    /\ labels[q] < labels[p] =>
                          /\ ~IsCore(q)
                          /\ \E c \in N(q) : IsCore(c) /\ labels[c] = labels[q]

\* A non-core point within epsilon of core points of two different clusters.
C1_Witness ==
    /\ Done
    /\ \E q \in Positions : \E a, c \in N(q) :
          /\ ~IsCore(q) /\ IsCore(a) /\ IsCore(c)
          /\ labels[a] # labels[c]
          /\ labels[q] = labels[c]

\* C2: after dbscan returns, a position is Noize iff it is neither a core
\* point nor within epsilon of one.
C2_NoiseIffNotCoreNorBorder ==
    Done => \A p \in Positions : (labels[p] = Noize) <=> (~IsCore(p) /\ ~IsBorder(p))

\* A border point that the outer loop visited before any core point near it,
\* next to a point that stays Noize.
C2_Witness ==
    /\ Done
    /\ \E p \in Positions : IsBorder(p) /\ labels[p] # Noize
                              /\ \A c \in N(p) : IsCore(c) => p < c
    /\ \E p \in Positions : labels[p] = Noize

\* the core points density-reachable from the core point s
RECURSIVE CoreChain(_)
CoreChain(chain) ==
    LET more == chain \cup {c \in Cores : \E d \in chain : c \in N(d)}
    IN  IF more = chain THEN chain ELSE CoreChain(more)

\* the positions density-reachable from the core point s
Reachable(s) == UNION {N(c) : c \in CoreChain({s})}

UsedIds == {labels[p] : p \in Positions} \ {Noize}

\* C3: after dbscan returns, every cluster id has a seed core point with
\* that id from which every position with that id is density-reachable.
C3_ClusterIsDensityConnected ==
    Done => \A k \in UsedIds :
                \E s \in Cores :
                    /\ labels[s] = Cluster(k)
                    /\ \A p \in Positions : labels[p] = Cluster(k) => p \in Reachable(s)

\* Two clusters, one of them holding a position that is reached only through
\* a chain of two core points.
C3_Witness ==
    /\ Done
    /\ Cardinality(UsedIds) >= 2
    /\ \E s \in Cores : \E p \in Reachable(s) : p \notin N(s) /\ labels[p] = labels[s]

MinCore(k) == CHOOSE p \in Cores : labels[p] = k /\ \A q \in Cores : labels[q] = k => p <= q

\* C4: the cluster ids of the returned labels are exactly 1..K, the smallest
\* core position of Cluster(i) is smaller than that of Cluster(j) for i < j,
\* and cluster_id grows only after an expansion that labelled a point with it.
C4_IdsCompactInDiscoveryOrder ==
    /\ [](Done => /\ UsedIds = 1..(cluster_id - 1)
                  /\ \A i, j \in UsedIds : i < j => MinCore(i) < MinCore(j))
    /\ [][cluster_id' > cluster_id =>
            /\ cluster_id' = cluster_id + 1
            /\ \E p \in Positions : labels[p] = Cluster(cluster_id)]_vars

\* Two clusters and a Noize point between the seeds of two of them.
C4_Witness ==
    /\ Done
    /\ Cardinality(UsedIds) >= 2
    /\ \E p \in Positions : labels[p] = Noize /\ MinCore(1) < p /\ p < MinCore(2)

HasPrev == prev_epsilon >= 0

\* C7 as stated (D6): with a larger epsilon no clustered position becomes
\* Noize and no two positions that shared a cluster id are separated.
C7_MonotoneInEpsilon ==
    (Done /\ HasPrev /\ prev_epsilon < epsilon) =>
        /\ \A p \in Positions : prev_labels[p] # Noize => labels[p] # Noize
        /\ \A p, q \in Positions :
              (prev_labels[p] # Noize /\ prev_labels[p] = prev_labels[q])
                  => labels[p] = labels[q]

\* C7 amended: with a larger epsilon no clustered position becomes Noize,
\* and two positions that shared a cluster id still share one when both are
\* core points at the larger epsilon.
C7_MonotoneForCores ==
    (Done /\ HasPrev /\ prev_epsilon < epsilon) =>
        /\ \A p \in Positions : prev_labels[p] # Noize => labels[p] # Noize
        /\ \A p, q \in Cores :
              (prev_labels[p] # Noize /\ prev_labels[p] = prev_labels[q])
                  => labels[p] = labels[q]

\* Two clusters of the smaller epsilon merged at the larger one, and a
\* position that was Noize absorbed.
C7_Witness ==
    /\ Done /\ HasPrev /\ prev_epsilon < epsilon
    /\ \E p, q \in Cores : /\ prev_labels[p] # Noize /\ prev_labels[q] # Noize
                           /\ prev_labels[p] # prev_labels[q]
                           /\ labels[p] = labels[q]
    /\ \E p \in Positions : prev_labels[p] = Noize /\ labels[p] # Noize

\* C8: two calls with the same items, epsilon and min_items return the same
\* partition, whatever the order in which each group was iterated.
C8_PartitionIndependentOfOrder ==
    (Done /\ HasPrev /\ prev_epsilon = epsilon) =>
        \A p, q \in Positions :
            /\ (prev_labels[p] = Noize) <=> (labels[p] = Noize)
            /\ (prev_labels[p] = prev_labels[q]) <=> (labels[p] = labels[q])

\* A second call at the same epsilon that formed two clusters sharing a
\* border point, from groups of three or more neighbors.
C8_Witness ==
    /\ Done /\ HasPrev /\ prev_epsilon = epsilon
    /\ Cardinality(UsedIds) >= 2
    /\ \E q \in Positions : ~IsCore(q) /\ \E a, c \in N(q) :
          IsCore(a) /\ IsCore(c) /\ labels[a] # labels[c]

\* C10: during a run, a label that is Cluster(k) is never changed.
C10_ClusterLabelIsFinal ==
    [][pc # "done" =>
         \A p \in Positions : labels[p] # Noize => labels'[p] = labels[p]]_vars

\* The for loop holds a neighbor that an earlier cluster labelled.
C10_Witness ==
    /\ pc = "for"
    /\ \E q \in neighbors : labels[q] # Noize /\ labels[q] # Cluster(cluster_id)

\* ------------------------------------------------------------------------
\* Properties of KdTree
\* ------------------------------------------------------------------------
Returned == pc = "returned"

Min(a, b) == IF a <= b THEN a ELSE b

\* how many elements of the sequence of points are at distance d of the query
CountAt(its, d) == Cardinality({i \in 1..Len(its) : distance(its[i], query) = d})

TreeItems == [i \in 1..Len(nodes) |-> nodes[i].item]

MaxDistance == 2 * Sq(KdGridMax)

\* the distances of the result are the Len(result) smallest of the tree
IsNearest ==
    \A d \in 0..MaxDistance :
        /\ CountAt(result, d) <= CountAt(TreeItems, d)
        /\ CountAt(result, d) > 0 =>
              \A e \in 0..(d - 1) : CountAt(result, e) = CountAt(TreeItems, e)

\* C5: find_nearest_n(q, k) returns normally, with min(k, n) items whose
\* distances are the min(k, n) smallest of the tree, for every k >= 0;
\* find_nearest(q) is None iff the tree is empty.
C5_NearestNTotalAndExact ==
    Returned =>
        /\ ~panicked
        /\ Len(result) = Min(max_count, Len(nodes))
        /\ IsNearest
        /\ op = "find_nearest" => (result = <<>> <=> Len(nodes) = 0)

\* C6: the sequence returned by find_nearest_n is in order of increasing
\* distance to the query.
C6_ResultAscending ==
    (Returned /\ ~panicked) =>
        \A i \in 1..(Len(result) - 1) :
            distance(result[i], query) <= distance(result[i + 1], query)

\* the arena indices of the subtree under idx (0 is the empty subtree)
RECURSIVE Subtree(_)
Subtree(idx) ==
    IF idx = 0 THEN {}
    ELSE {idx} \cup Subtree(nodes[idx].left_index) \cup Subtree(nodes[idx].right_index)

\* the depth of the node idx, the root being at depth 0
RECURSIVE DepthFrom(_, _, _)
DepthFrom(from, idx, depth) ==
    IF from = idx THEN depth
    ELSE IF idx \in Subtree(nodes[from].left_index)
    THEN DepthFrom(nodes[from].left_index, idx, depth + 1)
    ELSE DepthFrom(nodes[from].right_index, idx, depth + 1)

Depth(idx) == DepthFrom(root_index, idx, 0)

Built == pc # "construct"

\* C9 as stated: under every node, the left subtree is strictly Less than
\* the node on the axis of its depth, the right subtree Equal or Greater.
C9_LeftStrictlyLess ==
    Built => \A idx \in Subtree(root_index) :
        /\ \A x \in Subtree(nodes[idx].left_index) :
              cmp_in_depth(nodes[x].item, nodes[idx].item, Depth(idx)) = Less
        /\ \A x \in Subtree(nodes[idx].right_index) :
              cmp_in_depth(nodes[x].item, nodes[idx].item, Depth(idx)) # Less

\* C9 amended: under every node, the left subtree is Less or Equal to the
\* node on the axis of its depth, the right subtree Equal or Greater; the
\* tree holds every input item in one node.
C9_LeftLessOrEqual ==
    Built =>
        /\ \A idx \in Subtree(root_index) :
            /\ \A x \in Subtree(nodes[idx].left_index) :
                  cmp_in_depth(nodes[x].item, nodes[idx].item, Depth(idx)) # Greater
            /\ \A x \in Subtree(nodes[idx].right_index) :
                  cmp_in_depth(nodes[x].item, nodes[idx].item, Depth(idx)) # Less
        /\ Subtree(root_index) = 1..Len(items)

\* A tree whose root has two subtrees, with a node below the root whose left
\* subtree holds an item Equal to it on the axis of its depth.
C9_Witness ==
    /\ Built
    /\ root_index # 0
    /\ nodes[root_index].left_index # 0 /\ nodes[root_index].right_index # 0
    /\ \E idx \in Subtree(root_index) :
          /\ Depth(idx) >= 1
          /\ \E x \in Subtree(nodes[idx].left_index) :
                cmp_in_depth(nodes[x].item, nodes[idx].item, Depth(idx)) = Equal

\* find_nearest_n with k >= 1 (the part of C5 that holds): it never panics
\* and its result is exact
NearestNExactForPositiveCount ==
    (Returned /\ max_count >= 1) =>
        /\ ~panicked
        /\ Len(result) = Min(max_count, Len(nodes))
        /\ IsNearest

\* find_nearest_n with k <= 2 (the part of C6 that holds): the result is
\* ascending
AscendingUpToTwo ==
    (Returned /\ ~panicked /\ max_count <= 2) =>
        \A i \in 1..(Len(result) - 1) :
            distance(result[i], query) <= distance(result[i + 1], query)

====
